---- MODULE Spec2Model ----
(***************************************************************************)
(* Model of supabase/functions/fetch-rss-feeds/index.ts: one invocation of *)
(* the serve handler, the parseFeed task it starts for every entry of      *)
(* RSS_FEEDS, and the merge / sort / slice that builds the response.       *)
(*                                                                         *)
(* Text is a sequence of character codes.  An <item> block is a record of  *)
(* the three fields the claims are about, each either absent (its regular  *)
(* expression does not match) or present with the captured text.  The      *)
(* description and image fields are carried by no claim and are left out;  *)
(* the CDATA and the inline form of a title both end in the captured text. *)
(***************************************************************************)
EXTENDS Integers, Sequences, FiniteSets, TLC

\* ---------------------------------------------------------------- bounds
MaxEntries == 7      \* longest payload of the document-order family
MaxClock == 3        \* last wall-clock reading of an invocation

\* ------------------------------------------------------ program constants
NumFeeds == 4        \* RSS_FEEDS has four entries
PerSourceCap == 5    \* items.slice(0, 5)
GlobalCap == 20      \* allItems.slice(0, 20)

RSS_FEEDS == 1..NumFeeds

corsHeaders == {"Access-Control-Allow-Origin", "Access-Control-Allow-Headers"}

\* ------------------------------------------------------------------ text
SP == 0              \* a white-space character
CH == 1              \* a letter
RFC == 2             \* marks a date as a feed writes it
ISO == 3             \* marks a date as toISOString() writes it

NaN == -1            \* getTime() of an invalid Date

Min(a, b) == IF a < b THEN a ELSE b

\* String.prototype.trim
RECURSIVE TrimLeft(_)
TrimLeft(s) == IF s # <<>> /\ Head(s) = SP THEN TrimLeft(Tail(s)) ELSE s

RECURSIVE TrimRight(_)
TrimRight(s) ==
    IF s # <<>> /\ s[Len(s)] = SP THEN TrimRight(SubSeq(s, 1, Len(s) - 1)) ELSE s

trim(s) == TrimRight(TrimLeft(s))

\* new Date().toISOString() at wall-clock reading now
toISOString(now) == <<ISO, now>>

\* new Date(text).getTime(): the time of a date in either notation, NaN otherwise
getTime(text) ==
    IF Len(text) = 2 /\ text[1] \in {RFC, ISO} /\ text[2] >= 0 THEN text[2] ELSE NaN

\* Array.prototype.slice(0, n)
slice(s, n) == SubSeq(s, 1, Min(n, Len(s)))

\* --------------------------------------------------------- feed payloads
Absent == [present |-> FALSE, text |-> <<>>]
Tag(t) == [present |-> TRUE, text |-> t]

Entry(title, link, pubDate) == [title |-> title, link |-> link, pubDate |-> pubDate]

TitleA == <<CH>>
LinkA == <<CH, CH>>
Dated(t) == Entry(Tag(TitleA), Tag(LinkA), Tag(<<RFC, t>>))
NoLink(t) == Entry(Tag(TitleA), Absent, Tag(<<RFC, t>>))
BlankTitle(t) == Entry(Tag(<<SP>>), Tag(LinkA), Tag(<<RFC, t>>))
NoDate == Entry(Tag(TitleA), Tag(LinkA), Absent)
EmptyDate == Entry(Tag(TitleA), Tag(LinkA), Tag(<<>>))
BadDate == Entry(Tag(TitleA), Tag(LinkA), Tag(<<CH>>))

\* --------------------------------------------------------------- parseFeed
\* One item as the loop body pushes it: title and link trimmed, the date text
\* kept as captured unless it is missing or empty, then the current time.
MakeItem(e, source, now) ==
    [title |-> trim(e.title.text),
     link |-> trim(e.link.text),
     pubDate |-> IF e.pubDate.present /\ e.pubDate.text # <<>>
                 THEN e.pubDate.text ELSE toISOString(now),
     source |-> source]

\* if (titleMatch && linkMatch): both regular expressions matched
Matched(e) == e.title.present /\ e.link.present

\* for (const match of matches) { ... items.push(...) }
RECURSIVE extractLoop(_, _, _, _)
extractLoop(xml, items, source, now) ==
    IF xml = <<>> THEN items
    ELSE extractLoop(Tail(xml),
                     IF Matched(Head(xml))
                     THEN Append(items, MakeItem(Head(xml), source, now))
                     ELSE items,
                     source, now)

parseItems_nocap(xml, source, now) == extractLoop(xml, <<>>, source, now)

\* the try block of parseFeed once the body text is there
parseItems(xml, source, now) == slice(extractLoop(xml, <<>>, source, now), PerSourceCap)

\* ------------------------------------------------------------------- sort
\* (a, b) => new Date(b.pubDate).getTime() - new Date(a.pubDate).getTime()
\* as the sort reads it: a NaN result counts as 0
compare(a, b) ==
    LET ta == getTime(a.pubDate)
        tb == getTime(b.pubDate)
    IN  IF ta = NaN \/ tb = NaN THEN 0 ELSE tb - ta

Reverse(s) == [i \in 1..Len(s) |-> s[Len(s) + 1 - i]]

\* length of the run that starts the array (arrays shorter than 64 elements
\* are sorted as one run extended by binary insertion)
RECURSIVE RunLength(_, _, _)
RunLength(a, idx, desc) ==
    IF idx > Len(a) THEN Len(a)
    ELSE LET order == compare(a[idx], a[idx - 1])
         IN  IF (desc /\ order >= 0) \/ (~desc /\ order < 0)
             THEN idx - 1
             ELSE RunLength(a, idx + 1, desc)

RECURSIVE BinarySearch(_, _, _, _)
BinarySearch(a, pivot, left, right) ==
    IF left >= right THEN left
    ELSE LET mid == left + ((right - left) \div 2)
         IN  IF compare(pivot, a[mid]) < 0
             THEN BinarySearch(a, pivot, left, mid)
             ELSE BinarySearch(a, pivot, mid + 1, right)

RECURSIVE BinaryInsertionSort(_, _)
BinaryInsertionSort(a, start) ==
    IF start > Len(a) THEN a
    ELSE LET pivot == a[start]
             pos == BinarySearch(a, pivot, 1, start)
             moved == [i \in 1..Len(a) |->
                          IF i < pos \/ i > start THEN a[i]
                          ELSE IF i = pos THEN pivot
                          ELSE a[i - 1]]
         IN  BinaryInsertionSort(moved, start + 1)

\* allItems.sort(comparator)
sort(a) ==
    IF Len(a) < 2 THEN a
    ELSE LET desc == compare(a[2], a[1]) < 0
             run == RunLength(a, 3, desc)
             made == IF desc
                     THEN Reverse(SubSeq(a, 1, run)) \o SubSeq(a, run + 1, Len(a))
                     ELSE a
         IN  BinaryInsertionSort(made, run + 1)

\* results.flat()
RECURSIVE flat(_)
flat(rs) == IF rs = <<>> THEN <<>> ELSE Head(rs) \o flat(Tail(rs))

\* ------------------------------------------------- what the network returns
\* The outcome of fetch(feed.url) for one source: the request fails
\* ("neterr"), never completes ("hang"), answers with a success status
\* ("ok") or a non-success status ("badstatus"), both with a body, or answers
\* and then fails while the body is read ("bodyerr").
Outcome(kind, body) == [kind |-> kind, body |-> body]

NetErr == Outcome("neterr", <<>>)
Hang == Outcome("hang", <<>>)
BodyErr == Outcome("bodyerr", <<>>)

Scenarios ==
    {NetErr,
     Hang,
     Outcome("ok", <<Dated(1), NoLink(2), Dated(2)>>),
     Outcome("ok", <<NoDate, BlankTitle(1), EmptyDate>>),
     Outcome("ok", <<Dated(1), BadDate, Dated(2)>>),
     Outcome("badstatus", <<Dated(1)>>)}

\* payloads of up to MaxEntries entries, entry i dated i, each entry complete
\* or without a link
EntryKinds == {"dated", "nolink"}

KindEntry(k, i) == IF k = "dated" THEN Dated(i) ELSE NoLink(i)

OrderPayloads ==
    UNION {{[i \in 1..n |-> KindEntry(ks[i], i)] : ks \in [1..n -> EntryKinds]}
           : n \in 0..MaxEntries}

\* ------------------------------------------------------------------ state
VARIABLES
    method,       \* req.method
    pc,           \* where the handler is: "recv", "map", "await", "done"
    launched,     \* how many entries of RSS_FEEDS the map has gone through
    st,           \* per source, where its parseFeed call is
    fetchCount,   \* per source, how many times fetch was called
    results,      \* the array Promise.all fills
    settled,      \* the sources whose parseFeed promise has settled, in order
    extractedAt,  \* per source, the clock reading its extraction used
    net,          \* per source, what the network returns
    clock,        \* wall clock
    startedAt,    \* the clock reading when the request arrived
    responses     \* the responses the handler has returned

vars == <<method, pc, launched, st, fetchCount, results, settled, extractedAt,
          net, clock, startedAt, responses>>

Methods == {"OPTIONS", "POST"}

Pending == <<[title |-> <<>>, link |-> <<>>, pubDate |-> <<>>, source |-> 0]>>

NoBody == [empty |-> TRUE]
JsonBody(ok, items) == [empty |-> FALSE, success |-> ok, items |-> items]

Response(status, headers, body) == [status |-> status, headers |-> headers, body |-> body]

InitCommon ==
    /\ method \in Methods
    /\ pc = "recv"
    /\ launched = 0
    /\ st = [i \in RSS_FEEDS |-> "idle"]
    /\ fetchCount = [i \in RSS_FEEDS |-> 0]
    /\ results = [i \in RSS_FEEDS |-> Pending]
    /\ settled = <<>>
    /\ extractedAt = [i \in RSS_FEEDS |-> 0]
    /\ clock = 1
    /\ startedAt = 1
    /\ responses = <<>>

Init ==
    /\ InitCommon
    /\ \/ net \in [RSS_FEEDS -> Scenarios]
       \/ \E xml \in OrderPayloads :
             net = [i \in RSS_FEEDS |->
                       IF i = 1 THEN Outcome("ok", xml)
                       ELSE IF i = 2 THEN BodyErr
                       ELSE NetErr]

\* ---------------------------------------------------------------- handler
IsPreflight_never(m) == FALSE

\* req.method === 'OPTIONS'
IsPreflight(m) == m = "OPTIONS"

\* return new Response(null, { headers: corsHeaders })
Preflight ==
    /\ pc = "recv"
    /\ IsPreflight(method)
    /\ responses' = Append(responses, Response(200, corsHeaders, NoBody))
    /\ pc' = "done"
    /\ UNCHANGED <<method, launched, st, fetchCount, results, settled,
                   extractedAt, net, clock, startedAt>>

\* the request is not a preflight: enter the try block
StartPipeline ==
    /\ pc = "recv"
    /\ ~IsPreflight(method)
    /\ pc' = "map"
    /\ UNCHANGED <<method, launched, st, fetchCount, results, settled,
                   extractedAt, net, clock, startedAt, responses>>

\* one step of RSS_FEEDS.map: parseFeed runs up to its first await, which
\* calls fetch
MapFeed ==
    /\ pc = "map"
    /\ launched < NumFeeds
    /\ launched' = launched + 1
    /\ st' = [st EXCEPT ![launched + 1] = "fetching"]
    /\ fetchCount' = [fetchCount EXCEPT ![launched + 1] = @ + 1]
    /\ UNCHANGED <<method, pc, results, settled, extractedAt, net, clock,
                   startedAt, responses>>

\* await Promise.all(feedPromises): the handler suspends, and only now can a
\* promise reaction of a task run
AwaitAll ==
    /\ pc = "map"
    /\ launched = NumFeeds
    /\ pc' = "await"
    /\ UNCHANGED <<method, launched, st, fetchCount, results, settled,
                   extractedAt, net, clock, startedAt, responses>>

\* the wall clock advances while a task can still read it
Tick ==
    /\ pc = "await"
    /\ clock < MaxClock
    /\ \E i \in RSS_FEEDS : st[i] # "settled"
    /\ clock' = clock + 1
    /\ UNCHANGED <<method, pc, launched, st, fetchCount, results, settled,
                   extractedAt, net, startedAt, responses>>

resolveElement_inSettleOrder(rs, i, k, items) == [rs EXCEPT ![k] = items]

\* Promise.all stores the value of promise i at index i; k counts the
\* promises settled so far, this one included
resolveElement(rs, i, k, items) == [rs EXCEPT ![i] = items]

\* parseFeed returns: its promise settles with items
Settle(i, items) ==
    /\ st' = [st EXCEPT ![i] = "settled"]
    /\ settled' = Append(settled, i)
    /\ results' = resolveElement(results, i, Len(settled) + 1, items)

\* fetch resolves with a response, whatever its status; parseFeed goes on to
\* await response.text()
FetchResolve(i) ==
    /\ pc = "await"
    /\ st[i] = "fetching"
    /\ net[i].kind \in {"ok", "badstatus", "bodyerr"}
    /\ st' = [st EXCEPT ![i] = "reading"]
    /\ UNCHANGED <<method, pc, launched, fetchCount, results, settled,
                   extractedAt, net, clock, startedAt, responses>>

\* fetch rejects: the catch block logs and returns []
FetchReject(i) ==
    /\ pc = "await"
    /\ st[i] = "fetching"
    /\ net[i].kind = "neterr"
    /\ Settle(i, <<>>)
    /\ UNCHANGED <<method, pc, launched, fetchCount, extractedAt, net, clock,
                   startedAt, responses>>

\* response.text() resolves: the rest of the try block runs in one piece
\* (one clock reading stands for the readings of the loop)
TextResolve(i) ==
    /\ pc = "await"
    /\ st[i] = "reading"
    /\ net[i].kind \in {"ok", "badstatus"}
    /\ extractedAt' = [extractedAt EXCEPT ![i] = clock]
    /\ Settle(i, parseItems(net[i].body, i, clock))
    /\ UNCHANGED <<method, pc, launched, fetchCount, net, clock, startedAt,
                   responses>>

\* response.text() rejects: the catch block logs and returns []
TextReject(i) ==
    /\ pc = "await"
    /\ st[i] = "reading"
    /\ net[i].kind = "bodyerr"
    /\ Settle(i, <<>>)
    /\ UNCHANGED <<method, pc, launched, fetchCount, extractedAt, net, clock,
                   startedAt, responses>>

AllSettled_any(s) == \E i \in RSS_FEEDS : s[i] = "settled"

\* Promise.all resolves when every promise has
AllSettled(s) == \A i \in RSS_FEEDS : s[i] = "settled"

\* results.flat(), sort, slice(0, 20), the success response.  Nothing in the
\* try block throws on these values, so the catch block of the handler
\* (status 500) is never entered.
Respond ==
    /\ pc = "await"
    /\ AllSettled(st)
    /\ LET allItems == sort(flat([i \in RSS_FEEDS |-> results[i]]))
       IN  responses' = Append(responses,
                               Response(200, corsHeaders \cup {"Content-Type"},
                                        JsonBody(TRUE, slice(allItems, GlobalCap))))
    /\ pc' = "done"
    /\ UNCHANGED <<method, launched, st, fetchCount, results, settled,
                   extractedAt, net, clock, startedAt>>

Next ==
    \/ Preflight
    \/ StartPipeline
    \/ MapFeed
    \/ AwaitAll
    \/ Tick
    \/ \E i \in RSS_FEEDS : FetchResolve(i)
    \/ \E i \in RSS_FEEDS : FetchReject(i)
    \/ \E i \in RSS_FEEDS : TextResolve(i)
    \/ \E i \in RSS_FEEDS : TextReject(i)
    \/ Respond

Spec == Init /\ [][Next]_vars

\* The event loop runs every reaction that is ready; the network owes nothing
\* to a request that hangs, which has no action to take.
FairSpec ==
    /\ Spec
    /\ WF_vars(Preflight) /\ WF_vars(StartPipeline) /\ WF_vars(MapFeed)
    /\ WF_vars(AwaitAll) /\ WF_vars(Respond)
    /\ \A i \in RSS_FEEDS :
          /\ WF_vars(FetchResolve(i)) /\ WF_vars(FetchReject(i))
          /\ WF_vars(TextResolve(i)) /\ WF_vars(TextReject(i))

\* ------------------------------------------------------------ properties
Json == {k \in 1..Len(responses) : ~responses[k].body.empty}

ItemsOf(k) == responses[k].body.items

Extracting(i) == net[i].kind \in {"ok", "badstatus"}

\* the listed ways a retrieval fails
RetrievalFailed(i) == net[i].kind \in {"neterr", "badstatus"}

Count(s, x) == Cardinality({j \in 1..Len(s) : s[j] = x})

\* C1: whatever subset of the sources fails retrieval, the response is
\* success: true with status 200, each of its items carries the label of a
\* source whose retrieval succeeded, and it is empty when every source failed.
C1_Isolation ==
    \A k \in Json :
        /\ responses[k].body.success
        /\ responses[k].status = 200
        /\ \A j \in 1..Len(ItemsOf(k)) : ~RetrievalFailed(ItemsOf(k)[j].source)
        /\ (\A i \in RSS_FEEDS : RetrievalFailed(i)) => ItemsOf(k) = <<>>

\* C2: every item of every response has a non-empty title and a non-empty
\* link.
C2_NonEmptyTitleLink ==
    \A k \in Json : \A j \in 1..Len(ItemsOf(k)) :
        ItemsOf(k)[j].title # <<>> /\ ItemsOf(k)[j].link # <<>>

\* C3: a source whose retrieval failed by a network error or a non-success
\* status hands zero items to the merge, and none of its items is returned.
C3_FailedSourceEmpty ==
    \A i \in RSS_FEEDS :
        (st[i] = "settled" /\ RetrievalFailed(i)) =>
            /\ results[i] = <<>>
            /\ \A k \in Json : \A j \in 1..Len(ItemsOf(k)) : ItemsOf(k)[j].source # i

\* the first five entries of a payload that have both a title and a link, as
\* items of source i
FirstFive(i) ==
    LET valid == SelectSeq(net[i].body, LAMBDA e : e.title.present /\ e.link.present)
    IN  [j \in 1..(IF Len(valid) < 5 THEN Len(valid) ELSE 5) |->
            MakeItem(valid[j], i, extractedAt[i])]

StrictlyNewer(y, x) ==
    /\ getTime(y.pubDate) # NaN
    /\ getTime(x.pubDate) # NaN
    /\ getTime(y.pubDate) > getTime(x.pubDate)

\* C5: the items of a success response are newest first, number min(20, size
\* of the merge), and no item of the merge left out is strictly newer than
\* one returned.
C5_NewestFirst ==
    \A k \in Json :
        LET items == ItemsOf(k)
            merge == flat([i \in RSS_FEEDS |-> results[i]])
            left(x) == Count(merge, x) > Count(items, x)
        IN  /\ Len(items) = (IF Len(merge) < 20 THEN Len(merge) ELSE 20)
            /\ \A a, b \in 1..Len(items) : a < b => ~StrictlyNewer(items[b], items[a])
            /\ \A a \in 1..Len(merge) : \A b \in 1..Len(items) :
                  left(merge[a]) => ~StrictlyNewer(merge[a], items[b])

\* C6: every item of every response has a valid timestamp, and a timestamp
\* that is not the one the feed gave is at or after the start of the
\* invocation.
C6_ValidTimestamp ==
    \A k \in Json : \A j \in 1..Len(ItemsOf(k)) :
        LET d == ItemsOf(k)[j].pubDate
        IN  /\ getTime(d) # NaN
            /\ d[1] = ISO => getTime(d) >= startedAt

\* C7: a preflight request is answered with no body and the two
\* access-control headers, and no retrieval, extraction or merge runs for it.
C7_PreflightNoPipeline ==
    method = "OPTIONS" =>
        /\ \A k \in 1..Len(responses) :
              /\ responses[k].body.empty
              /\ responses[k].headers =
                    {"Access-Control-Allow-Origin", "Access-Control-Allow-Headers"}
        /\ launched = 0
        /\ settled = <<>>
        /\ \A i \in RSS_FEEDS :
              fetchCount[i] = 0 /\ st[i] = "idle" /\ results[i] = Pending

C7_Witness == method = "OPTIONS" /\ pc = "done" /\ Len(responses) = 1

\* C8: one retrieval per source, all of them started before any of them is
\* awaited or goes on, and the response only after every task has settled,
\* failed tasks included.
C8_JoinAll ==
    /\ \A i \in RSS_FEEDS : fetchCount[i] <= 1
    /\ (\E i \in RSS_FEEDS : st[i] \in {"reading", "settled"}) =>
          \A j \in RSS_FEEDS : fetchCount[j] = 1
    /\ pc = "await" => \A j \in RSS_FEEDS : fetchCount[j] = 1
    /\ Json # {} =>
          /\ \A i \in RSS_FEEDS : fetchCount[i] = 1 /\ st[i] = "settled"
          /\ Len(settled) = NumFeeds
    /\ Len(responses) <= 1

C8_Witness ==
    /\ Json # {}
    /\ \E i, j \in RSS_FEEDS :
          /\ net[i].kind = "neterr"
          /\ net[j].kind = "ok"
          /\ results[j] # <<>>
          /\ \E a, b \in 1..Len(settled) : a < b /\ settled[a] = i /\ settled[b] = j

\* C9: every invocation that is not a preflight eventually emits its
\* response.
C9_EventuallyResponds == (method = "POST") ~> (responses # <<>>)

\* what the response holds when extraction runs after the barrier, source by
\* source in registry order
RECURSIVE AfterBarrier(_, _)
AfterBarrier(i, now) ==
    IF i > NumFeeds THEN <<>>
    ELSE (IF Extracting(i) THEN parseItems(net[i].body, i, now) ELSE <<>>)
         \o AfterBarrier(i + 1, now)

Reference == slice(sort(AfterBarrier(1, clock)), GlobalCap)

Labels(items) == [j \in 1..Len(items) |-> items[j].source]

\* C10 as stated: for fixed retrieval outcomes the sequence of the response
\* does not depend on the order in which the tasks complete, entries without
\* a publication date included (compared by the source of each position).
C10_AnyInterleaving ==
    \A k \in Json : Labels(ItemsOf(k)) = Labels(Reference)

AllDated ==
    \A i \in RSS_FEEDS : Extracting(i) =>
        \A j \in 1..Len(net[i].body) :
            Matched(net[i].body[j]) =>
                net[i].body[j].pubDate.present /\ net[i].body[j].pubDate.text # <<>>

\* C10 amended: when every extracted entry carries a publication date, the
\* response is the sort of the registry-order concatenation, whatever the
\* order in which the tasks completed.
C10_DatedAnyInterleaving ==
    AllDated => \A k \in Json : ItemsOf(k) = Reference

C10_Witness ==
    /\ Json # {}
    /\ AllDated
    /\ \E a, b \in 1..Len(settled) :
          /\ a < b /\ settled[a] > settled[b]
          /\ results[settled[a]] # <<>> /\ results[settled[b]] # <<>>
          /\ \E x \in 1..Len(results[settled[a]]), y \in 1..Len(results[settled[b]]) :
                getTime(results[settled[a]][x].pubDate) =
                    getTime(results[settled[b]][y].pubDate)

====
